---- MODULE Spec2Model ----
(***************************************************************************)
(* TaxFreeCalc: the Canadian tax-burden calculator of                      *)
(* src/utils/tax_calculator.py, as a state machine of calls to its entry   *)
(* points.                                                                 *)
(*                                                                         *)
(* Numbers.  The source computes in binary floating point.  Here every     *)
(* quantity is the exact decimal (or rational) value of the expression:    *)
(*   Amt    [i, x]     = i + x/Span dollars            (incomes, amounts)  *)
(*   Money  [d, t, m]  = d + (t + m/Span)/Scale dollars (taxes)            *)
(* with Scale = 10^4 (rates have four decimals) and Span = 62470 (the      *)
(* divisor of the basic-personal-amount phase-out).  The rounding error of *)
(* the float operations (about 1e-11 dollars) is far below one unit of     *)
(* either representation; the one place where it decides a result is       *)
(* round(tax, 2) of a total that is exactly half a cent, and there the     *)
(* model takes either neighbour (parameter half_up).                       *)
(***************************************************************************)
EXTENDS Integers, Sequences, FiniteSets, TLC

VARIABLES
    fn,               \* the entry point called
    income,           \* argument: gross annual income (dollars)
    tenths,           \* argument: tenths of a dollar added to income
    province,         \* argument: province string
    employment_type,  \* argument: employment type string
    pc,               \* "call" | "returned" | "raised"
    result,           \* the returned value (when pc = "returned")
    error,            \* the exception raised (when pc = "raised")
    prev,             \* the previous completed call of this run, or NoCall
    service,          \* the image service as the call finds it
    log,              \* what has been printed
    caller_brackets,  \* the list get_federal_tax_brackets() gave to a caller,
                      \* as the caller has left it
    page              \* what the page has computed from the result, or NoPage

vars == <<fn, income, tenths, province, employment_type, pc, result, error,
          prev, service, log, caller_brackets, page>>

-----------------------------------------------------------------------------
(* Rate tables *)

Inf == 2147483647
Scale == 10000

\* (mutant) the second bracket begun one dollar above the end of the first
get_federal_tax_brackets_with_gap ==
    << <<0, 53359, 1500>>,
       <<53360, 106717, 2050>>,
       <<106717, 165430, 2600>>,
       <<165430, 235675, 2900>>,
       <<235675, Inf, 3300>> >>

\* lines 4-12
get_federal_tax_brackets ==
    << <<0, 53359, 1500>>,
       <<53359, 106717, 2050>>,
       <<106717, 165430, 2600>>,
       <<165430, 235675, 2900>>,
       <<235675, Inf, 3300>> >>

get_province_tax_rates ==
    "Ontario" :> << <<0, 49231, 505>>, <<49231, 98463, 915>>,
                    <<98463, 150000, 1116>>, <<150000, 220000, 1216>>,
                    <<220000, Inf, 1316>> >>
 @@ "British Columbia" :> << <<0, 45654, 506>>, <<45654, 91310, 770>>,
                    <<91310, 104835, 1050>>, <<104835, 127299, 1229>>,
                    <<127299, 172602, 1470>>, <<172602, 240716, 1680>>,
                    <<240716, Inf, 2050>> >>
 @@ "Alberta" :> << <<0, 142292, 1000>>, <<142292, 170751, 1200>>,
                    <<170751, 227668, 1300>>, <<227668, 341502, 1400>>,
                    <<341502, Inf, 1500>> >>
 @@ "Quebec" :> << <<0, 49275, 1400>>, <<49275, 98540, 1900>>,
                    <<98540, 119910, 2400>>, <<119910, Inf, 2575>> >>
 @@ "Manitoba" :> << <<0, 36842, 1080>>, <<36842, 79625, 1275>>,
                    <<79625, Inf, 1740>> >>
 @@ "Saskatchewan" :> << <<0, 49720, 1050>>, <<49720, 142058, 1250>>,
                    <<142058, Inf, 1450>> >>
 @@ "Nova Scotia" :> << <<0, 29590, 879>>, <<29590, 59180, 1495>>,
                    <<59180, 93000, 1667>>, <<93000, 150000, 1750>>,
                    <<150000, Inf, 2100>> >>
 @@ "New Brunswick" :> << <<0, 47715, 940>>, <<47715, 95431, 1400>>,
                    <<95431, 176756, 1600>>, <<176756, Inf, 1950>> >>
 @@ "Prince Edward Island" :> << <<0, 31984, 980>>, <<31984, 63969, 1380>>,
                    <<63969, Inf, 1670>> >>
 @@ "Newfoundland and Labrador" :> << <<0, 41457, 870>>, <<41457, 82913, 1450>>,
                    <<82913, 148027, 1580>>, <<148027, 207239, 1780>>,
                    <<207239, 264750, 1980>>, <<264750, Inf, 2080>> >>
 @@ "Yukon" :> << <<0, 53359, 640>>, <<53359, 106717, 900>>,
                    <<106717, 165430, 1090>>, <<165430, 235675, 1280>>,
                    <<235675, Inf, 1500>> >>
 @@ "Northwest Territories" :> << <<0, 48326, 590>>, <<48326, 96655, 860>>,
                    <<96655, 157139, 1220>>, <<157139, Inf, 1405>> >>
 @@ "Nunavut" :> << <<0, 47862, 400>>, <<47862, 95724, 700>>,
                    <<95724, 155625, 900>>, <<155625, Inf, 1150>> >>

\* get_cpp_ei_rates: rates per Scale, maxima in cents
cpp_rate == 595
cpp_max_cents == 375445
ei_rate == 163
ei_max_cents == 100245

\* the basic personal amount of calculate_federal_tax
BpaFull == 15000
BpaFloor == 13521
PhaseOutStart == 173205
PhaseOutEnd == 235675
Span == PhaseOutEnd - PhaseOutStart

-----------------------------------------------------------------------------
(* Exact arithmetic on amounts and money *)

Amt(i, x) == [i |-> i + (x \div Span), x |-> x % Span]
AmtInt(i) == [i |-> i, x |-> 0]
AmtSub(a, b) == Amt(a.i - b.i, a.x - b.x)
AmtLeq(a, b) == a.i < b.i \/ (a.i = b.i /\ a.x <= b.x)
AmtMin(a, b) == IF AmtLeq(a, b) THEN a ELSE b
AmtMax(a, b) == IF AmtLeq(a, b) THEN b ELSE a

Money(d, t, m) ==
    LET t2 == t + (m \div Span)
    IN  [d |-> d + (t2 \div Scale), t |-> t2 % Scale, m |-> m % Span]
Zero == [d |-> 0, t |-> 0, m |-> 0]
Dollars(i) == [d |-> i, t |-> 0, m |-> 0]
Cents(c) == [d |-> c \div 100, t |-> (c % 100) * 100, m |-> 0]
MAdd(a, b) == Money(a.d + b.d, a.t + b.t, a.m + b.m)
MSub(a, b) == Money(a.d - b.d, a.t - b.t, a.m - b.m)
MLeq(a, b) ==
    \/ a.d < b.d
    \/ a.d = b.d /\ a.t < b.t
    \/ a.d = b.d /\ a.t = b.t /\ a.m <= b.m
MLess(a, b) == MLeq(a, b) /\ a # b
MMin(a, b) == IF MLeq(a, b) THEN a ELSE b
\* k * a, for a small integer k
MTimes(a, k) == Money(a.d * k, a.t * k, a.m * k)

\* amount * rate, the rate given per Scale
MulRate(a, r) ==
    LET lo == (a.i % Scale) * r
        fr == a.x * r
    IN  Money((a.i \div Scale) * r + (lo \div Scale),
              (lo % Scale) + (fr \div Span),
              fr % Span)

\* (mutant) the total cut to whole cents instead of rounded
Round2_truncated(v, half_up) == [d |-> v.d, t |-> v.t - (v.t % 100), m |-> 0]

\* round(v, 2): to the nearest cent; an exact half cent goes up iff half_up
Round2(v, half_up) ==
    LET c == v.t % 100
        above == c > 50 \/ (c = 50 /\ v.m > 0)
        tie == c = 50 /\ v.m = 0
        down == [d |-> v.d, t |-> v.t - c, m |-> 0]
    IN  IF above \/ (tie /\ half_up) THEN Money(down.d, down.t + 100, 0)
        ELSE down

IsCents(v) == v.t % 100 = 0 /\ v.m = 0

-----------------------------------------------------------------------------
(* Bracket tax engine *)

\* (mutant) the full amount and the floor exchanged below the phase-out
basic_personal_amount_swapped(inc) ==
    IF inc <= PhaseOutStart THEN AmtInt(BpaFloor)
    ELSE LET n == (BpaFull - BpaFloor) * (inc - PhaseOutStart)
         IN  AmtMax(AmtInt(BpaFloor), AmtSub(AmtInt(BpaFull), Amt(0, n)))

\* (mutant) the reduction without its floor
basic_personal_amount_no_floor(inc) ==
    IF inc <= PhaseOutStart THEN AmtInt(BpaFull)
    ELSE LET n == (BpaFull - BpaFloor) * (inc - PhaseOutStart)
         IN  AmtSub(AmtInt(BpaFull), Amt(0, n))

\* the federal basic personal amount, lines 122-128
basic_personal_amount(inc) ==
    IF inc <= PhaseOutStart THEN AmtInt(BpaFull)
    ELSE LET n == (BpaFull - BpaFloor) * (inc - PhaseOutStart)
         IN  AmtMax(AmtInt(BpaFloor), AmtSub(AmtInt(BpaFull), Amt(0, n)))

\* (mutant) the upper bound taken for the width of the bracket
taxable_amount_to_upper(b, remaining) ==
    IF b[2] = Inf THEN remaining
    ELSE AmtMin(remaining, AmtInt(b[2]))

\* the amount taxed in one bracket, lines 136-139 and 172-175
taxable_amount(b, remaining) ==
    IF b[2] = Inf THEN remaining
    ELSE AmtMin(remaining, AmtInt(b[2] - b[1]))

\* one bracket_breakdown entry; the formatted texts are its bracket and rate
BreakdownLine(b, remaining) ==
    [lower |-> b[1], upper |-> b[2], rate |-> b[3],
     taxable_amount |-> taxable_amount(b, remaining),
     tax_paid |-> MulRate(taxable_amount(b, remaining), b[3])]

\* the loop over the brackets, lines 132-151 and 168-187
RECURSIVE BracketWalk(_, _, _)
BracketWalk(brackets, k, remaining) ==
    IF k > Len(brackets) \/ AmtLeq(remaining, AmtInt(0)) THEN <<>>
    ELSE LET line == BreakdownLine(brackets[k], remaining)
         IN  <<line>> \o BracketWalk(brackets, k + 1,
                                     AmtSub(remaining, line.taxable_amount))

\* the running total `tax` once the loop has ended
RECURSIVE SumTaxPaid(_)
SumTaxPaid(lines) ==
    IF lines = <<>> THEN Zero
    ELSE MAdd(SumTaxPaid(SubSeq(lines, 1, Len(lines) - 1)),
              lines[Len(lines)].tax_paid)

\* (mutant) the basic personal amount not subtracted
FederalRemaining_no_exemption(inc) == AmtMax(AmtInt(0), AmtInt(inc))

\* lines 122-130: max(0, income - basic_personal_amount)
FederalRemaining(inc) ==
    AmtMax(AmtInt(0), AmtSub(AmtInt(inc), basic_personal_amount(inc)))

\* (mutant) one list kept by the module and handed to every caller
federal_brackets_of_call_shared == caller_brackets

\* line 117, brackets = get_federal_tax_brackets(): the accessor builds a new
\* list at every call (lines 6-12), which no caller holds
federal_brackets_of_call == get_federal_tax_brackets

calculate_federal_tax(inc, half_up) ==
    LET lines == BracketWalk(federal_brackets_of_call, 1, FederalRemaining(inc))
    IN  [tax |-> Round2(SumTaxPaid(lines), half_up), breakdown |-> lines]

Raised(e) == [kind |-> "raised", error |-> e]
Returned(v) == [kind |-> "returned", value |-> v]

\* (mutant) the federal basic personal amount taken off the provincial base
provincial_tax_of_after_exemption(amount, prov, half_up) ==
    LET lines == BracketWalk(get_province_tax_rates[prov], 1,
                             AmtMax(AmtInt(0), AmtSub(amount, AmtInt(BpaFull))))
    IN  [tax |-> Round2(SumTaxPaid(lines), half_up), breakdown |-> lines]

\* lines 164-189, for a province of the table; the income is an amount, a
\* whole number of dollars or not
provincial_tax_of(amount, prov, half_up) ==
    LET lines == BracketWalk(get_province_tax_rates[prov], 1, amount)
    IN  [tax |-> Round2(SumTaxPaid(lines), half_up), breakdown |-> lines]

\* (mutant) a province outside the table silently taxed with the first table
calculate_provincial_tax_defaulting(amount, prov, half_up) ==
    IF prov \notin DOMAIN get_province_tax_rates
    THEN Returned(provincial_tax_of(amount, "Ontario", half_up))
    ELSE Returned(provincial_tax_of(amount, prov, half_up))

\* lines 160-162 raise ValueError for any other province
calculate_provincial_tax(amount, prov, half_up) ==
    IF prov \notin DOMAIN get_province_tax_rates THEN Raised("ValueError")
    ELSE Returned(provincial_tax_of(amount, prov, half_up))

-----------------------------------------------------------------------------
(* Payroll contributions, consumption tax, pay periods *)

\* a quotient n/q of a money value by an integer (float division, exact)
Quot(n, q) == [n |-> n, q |-> q]
QEq(a, b) == MTimes(a.n, b.q) = MTimes(b.n, a.q)

\* (mutant) the doubled contribution capped at the single maximum
cpp_contribution_single_cap(inc, emp) ==
    IF emp = "Self-Employed"
    THEN MMin(MTimes(MulRate(AmtInt(inc), cpp_rate), 2), Cents(cpp_max_cents))
    ELSE MMin(MulRate(AmtInt(inc), cpp_rate), Cents(cpp_max_cents))

\* (mutant) a contractor charged both halves, like the self-employed
cpp_contribution_contractor_doubled(inc, emp) ==
    IF emp \in {"Self-Employed", "Contractor"}
    THEN MMin(MTimes(MulRate(AmtInt(inc), cpp_rate), 2),
              MTimes(Cents(cpp_max_cents), 2))
    ELSE MMin(MulRate(AmtInt(inc), cpp_rate), Cents(cpp_max_cents))

\* (mutant) max written for min: the maximum charged as a minimum
cpp_contribution_max_for_min(inc, emp) ==
    LET larger(a, b) == IF MLeq(a, b) THEN b ELSE a
    IN  IF emp = "Self-Employed"
        THEN larger(MTimes(MulRate(AmtInt(inc), cpp_rate), 2),
                    MTimes(Cents(cpp_max_cents), 2))
        ELSE larger(MulRate(AmtInt(inc), cpp_rate), Cents(cpp_max_cents))

\* lines 321-326
cpp_contribution(inc, emp) ==
    IF emp = "Self-Employed"
    THEN MMin(MTimes(MulRate(AmtInt(inc), cpp_rate), 2),
              MTimes(Cents(cpp_max_cents), 2))
    ELSE MMin(MulRate(AmtInt(inc), cpp_rate), Cents(cpp_max_cents))

ei_contribution(inc, emp) ==
    IF emp = "Self-Employed" THEN Zero
    ELSE MMin(MulRate(AmtInt(inc), ei_rate), Cents(ei_max_cents))

\* (mutant) the map without its entry for Nunavut
get_gst_hst_rates_without_nunavut ==
    "Ontario" :> 13 @@ "British Columbia" :> 5 @@ "Alberta" :> 5
 @@ "Quebec" :> 5 @@ "Manitoba" :> 5 @@ "Saskatchewan" :> 5
 @@ "Nova Scotia" :> 15 @@ "New Brunswick" :> 15
 @@ "Prince Edward Island" :> 15 @@ "Newfoundland and Labrador" :> 15
 @@ "Yukon" :> 5 @@ "Northwest Territories" :> 5

\* get_gst_hst_rates, in hundredths
get_gst_hst_rates ==
    "Ontario" :> 13 @@ "British Columbia" :> 5 @@ "Alberta" :> 5
 @@ "Quebec" :> 5 @@ "Manitoba" :> 5 @@ "Saskatchewan" :> 5
 @@ "Nova Scotia" :> 15 @@ "New Brunswick" :> 15
 @@ "Prince Edward Island" :> 15 @@ "Newfoundland and Labrador" :> 15
 @@ "Yukon" :> 5 @@ "Northwest Territories" :> 5 @@ "Nunavut" :> 5

DefaultGstRate == 5

\* (mutant) groceries counted among the taxable categories
spending_categories_groceries_taxed ==
    << [name |-> "Housing (GST/HST exempt)", percentage |-> 35, taxable |-> FALSE],
       [name |-> "Groceries (mostly exempt)", percentage |-> 15, taxable |-> TRUE],
       [name |-> "Transportation", percentage |-> 12, taxable |-> TRUE],
       [name |-> "Entertainment & Dining", percentage |-> 10, taxable |-> TRUE],
       [name |-> "Shopping & Misc", percentage |-> 18, taxable |-> TRUE],
       [name |-> "Savings & Investments", percentage |-> 10, taxable |-> FALSE] >>

\* spending_categories, in dictionary order: percentage in hundredths
spending_categories ==
    << [name |-> "Housing (GST/HST exempt)", percentage |-> 35, taxable |-> FALSE],
       [name |-> "Groceries (mostly exempt)", percentage |-> 15, taxable |-> FALSE],
       [name |-> "Transportation", percentage |-> 12, taxable |-> TRUE],
       [name |-> "Entertainment & Dining", percentage |-> 10, taxable |-> TRUE],
       [name |-> "Shopping & Misc", percentage |-> 18, taxable |-> TRUE],
       [name |-> "Savings & Investments", percentage |-> 10, taxable |-> FALSE] >>

gst_rate(prov) ==
    IF prov \in DOMAIN get_gst_hst_rates THEN get_gst_hst_rates[prov]
    ELSE DefaultGstRate

\* the sum, over the first k categories with the given flag, of
\* after_tax_income * percentage (times 100)
RECURSIVE SpendingTotal(_, _, _)
SpendingTotal(after, k, flag) ==
    IF k = 0 THEN Zero
    ELSE LET c == spending_categories[k]
             rest == SpendingTotal(after, k - 1, flag)
         IN  IF c.taxable = flag THEN MAdd(rest, MTimes(after, c.percentage))
             ELSE rest

\* the value calculate_consumption_tax returns; line 269 divides by
\* after_tax_income, so the function raises when that is zero
consumption_tax_result(after, prov) ==
    LET rate == gst_rate(prov)
        n == Len(spending_categories)
        total_taxable == SpendingTotal(after, n, TRUE)
        total_non_taxable == SpendingTotal(after, n, FALSE)
    IN  [tax |-> Quot(MTimes(total_taxable, rate), 100 * 100),
         rate |-> rate,
         taxable_spending |-> Quot(total_taxable, 100),
         non_taxable_spending |-> Quot(total_non_taxable, 100),
         taxable_ratio |-> [num |-> Quot(total_taxable, 100), den |-> after],
         monthly_breakdown |->
            [k \in 1..n |->
                LET c == spending_categories[k]
                    amount == MTimes(after, c.percentage)
                IN  [category |-> c.name,
                     amount |-> Quot(amount, 100 * 12),
                     gst_hst |-> IF c.taxable
                                 THEN Quot(MTimes(amount, rate), 100 * 100 * 12)
                                 ELSE Quot(Zero, 12),
                     taxable |-> c.taxable]]]

\* lines 209-276: the division of line 269 raises for an after-tax income of 0
calculate_consumption_tax(after, prov) ==
    IF after = Zero THEN Raised("ZeroDivisionError")
    ELSE Returned(consumption_tax_result(after, prov))

PayPeriodNames == <<"yearly", "monthly", "biweekly", "weekly">>

\* (mutant) two pay days a month taken for a pay day every two weeks
PayPeriodDivisor_semimonthly == <<1, 12, 24, 52>>

PayPeriodDivisor == <<1, 12, 26, 52>>

\* lines 278-303
calculate_pay_periods(inc, deductions) ==
    LET after == MSub(Dollars(inc), deductions)
    IN  [k \in 1..Len(PayPeriodNames) |->
            [period |-> PayPeriodNames[k],
             gross |-> Quot(Dollars(inc), PayPeriodDivisor[k]),
             deductions |-> Quot(deductions, PayPeriodDivisor[k]),
             net |-> Quot(after, PayPeriodDivisor[k])]]

\* (mutant) the table scanned from its first bracket, not reversed
marginal_rate_first(brackets, inc) ==
    LET S == {k \in 1..Len(brackets) : inc >= brackets[k][1]}
    IN  IF S = {} THEN 0
        ELSE brackets[CHOOSE k \in S : \A j \in S : k <= j][3]

\* (mutant) the lower bound of a bracket left out of it
marginal_rate_strict(brackets, inc) ==
    LET S == {k \in 1..Len(brackets) : inc > brackets[k][1]}
    IN  IF S = {} THEN 0
        ELSE brackets[CHOOSE k \in S : \A j \in S : j <= k][3]

\* src/main.py, lines 310-317: the function of the same name the page defines
\* for itself, a dictionary by period
local_calculate_pay_periods(annual_income, deductions) ==
    LET net_income == MSub(Dollars(annual_income), deductions)
    IN  "yearly" :> [gross |-> Quot(Dollars(annual_income), 1),
                     deductions |-> Quot(deductions, 1),
                     net |-> Quot(net_income, 1)]
     @@ "monthly" :> [gross |-> Quot(Dollars(annual_income), 12),
                      deductions |-> Quot(deductions, 12),
                      net |-> Quot(net_income, 12)]
     @@ "biweekly" :> [gross |-> Quot(Dollars(annual_income), 26),
                       deductions |-> Quot(deductions, 26),
                       net |-> Quot(net_income, 26)]
     @@ "weekly" :> [gross |-> Quot(Dollars(annual_income), 52),
                     deductions |-> Quot(deductions, 52),
                     net |-> Quot(net_income, 52)]

\* lines 339-342: the rate of the topmost bracket whose lower bound is <= income
\* (the federal bracket list is not empty, and a province outside the table
\* has raised before)
marginal_rate(brackets, inc) ==
    LET S == {k \in 1..Len(brackets) : inc >= brackets[k][1]}
    IN  IF S = {} THEN 0
        ELSE brackets[CHOOSE k \in S : \A j \in S : j <= k][3]

-----------------------------------------------------------------------------
(* The aggregator *)

\* (mutant) the EI premium left out of the total
total_deductions_without_ei(federal_tax, provincial_tax, cpp, ei) ==
    MAdd(MAdd(federal_tax, provincial_tax), cpp)

\* line 329
total_deductions(federal_tax, provincial_tax, cpp, ei) ==
    MAdd(MAdd(MAdd(federal_tax, provincial_tax), cpp), ei)

\* (mutant) the deductions added to the income
after_tax_income_added(inc, deductions) == MAdd(Dollars(inc), deductions)

\* line 330
after_tax_income(inc, deductions) == MSub(Dollars(inc), deductions)

\* lines 347-369, reached when nothing has raised
burden_result(inc, prov, federal, provincial, cpp, ei) ==
    LET deductions == total_deductions(federal.tax, provincial.tax, cpp, ei)
        after == after_tax_income(inc, deductions)
    IN  [federal_tax |-> federal.tax,
         provincial_tax |-> provincial.tax,
         total_deductions |-> deductions,
         after_tax_income |-> after,
         tax_breakdown |-> [federal |-> federal.tax,
                            provincial |-> provincial.tax,
                            cpp |-> cpp, ei |-> ei],
         tax_rates |->
            [total_tax_rate |-> Quot(MTimes(deductions, 100), inc),
             marginal_tax_rate |->
                marginal_rate(get_federal_tax_brackets, inc)
                + marginal_rate(get_province_tax_rates[prov], inc),
             federal_rate |-> Quot(MTimes(federal.tax, 100), inc),
             provincial_rate |-> Quot(MTimes(provincial.tax, 100), inc),
             cpp_ei_rate |-> Quot(MTimes(MAdd(cpp, ei), 100), inc)],
         federal_breakdown |-> federal.breakdown,
         provincial_breakdown |-> provincial.breakdown,
         consumption_tax_breakdown |-> consumption_tax_result(after, prov),
         pay_periods |-> calculate_pay_periods(inc, deductions)]

\* lines 306-369, in the order of the source: the provincial lookup raises
\* ValueError (line 162), the division of line 269 and then that of line 336
\* raise ZeroDivisionError
calculate_total_tax_burden(inc, prov, emp, half_up_f, half_up_p) ==
    IF calculate_provincial_tax(AmtInt(inc), prov, half_up_p).kind = "raised"
    THEN calculate_provincial_tax(AmtInt(inc), prov, half_up_p)
    ELSE LET federal == calculate_federal_tax(inc, half_up_f)
             provincial ==
                calculate_provincial_tax(AmtInt(inc), prov, half_up_p).value
             cpp == cpp_contribution(inc, emp)
             ei == ei_contribution(inc, emp)
             deductions == total_deductions(federal.tax, provincial.tax, cpp, ei)
             consumption ==
                calculate_consumption_tax(after_tax_income(inc, deductions), prov)
         IN  IF consumption.kind = "raised" THEN consumption
             ELSE IF inc = 0 THEN Raised("ZeroDivisionError")
             ELSE Returned(burden_result(inc, prov, federal, provincial, cpp, ei))

-----------------------------------------------------------------------------
(* The arguments the calls are made with *)

DenseMax == 40        \* every income 0..DenseMax
GridMax == 20         \* and k * GridStep for k in 0..GridMax
GridStep == 50000
Halo == 1             \* and every table bound b, from b - Halo to b + Halo
NegMax == 2           \* negative incomes -1..-NegMax and -GridStep..-NegMax*GridStep
MaxTenths == 1        \* incomes below a dollar: 0.1 .. MaxTenths / 10

Provinces == DOMAIN get_province_tax_rates
EmploymentTypes == {"Employee", "Self-Employed", "Contractor"}

TableBounds ==
    {get_federal_tax_brackets[k][1] : k \in 1..Len(get_federal_tax_brackets)}
    \cup UNION {{get_province_tax_rates[p][k][1] :
                    k \in 1..Len(get_province_tax_rates[p])} : p \in Provinces}
    \cup {BpaFull, BpaFloor, PhaseOutStart, PhaseOutEnd}

\* the documented example and the default of the income field
ExampleIncomes == {250000, 60000}

\* the incomes whose taxable income, after the basic personal amount, is a
\* federal bracket bound
ExemptBounds ==
    {b + BpaFull : b \in {get_federal_tax_brackets[k][1] :
                             k \in 1..Len(get_federal_tax_brackets)}
                          \cap (0..(PhaseOutStart - BpaFull))}
    \cup {PhaseOutEnd + BpaFloor}

ValidIncomes ==
    (0..DenseMax) \cup {k * GridStep : k \in 0..GridMax} \cup ExampleIncomes
    \cup {i \in UNION {(b - Halo)..(b + Halo) :
                           b \in TableBounds \cup ExemptBounds} : i >= 0}

NegativeIncomes ==
    {-k : k \in 1..NegMax} \cup {-(k * GridStep) : k \in 1..NegMax}

Incomes == ValidIncomes \cup NegativeIncomes
ProvinceArgs == Provinces \cup {"Atlantis"}
EmploymentArgs == EmploymentTypes \cup {"Student"}

\* src/main.py: the widgets of the page.  The income field takes whole
\* numbers from 0 to 1000000 (lines 163-171), the province list is written out
\* (lines 176-194), the employment types are the keys of get_employment_types()
\* (lines 199-203)
UiMaxIncome == 1000 * 1000
UiIncomes == {i \in ValidIncomes : i <= UiMaxIncome}
UiProvinces ==
    {"Ontario", "British Columbia", "Alberta", "Quebec", "Manitoba",
     "Saskatchewan", "Nova Scotia", "New Brunswick", "Prince Edward Island",
     "Newfoundland and Labrador", "Yukon", "Northwest Territories", "Nunavut"}
UiEmploymentTypes == EmploymentTypes

NoArg == "-"

\* the image service as generate_tax_impact_image can find it: working, no
\* credentials to build the client with, or failing the request
ImageServices == {"ok", "no_credentials", "request_fails"}
None == [url |-> "None"]
ImageUrl == [url |-> "response.data[0].url"]
NoCall == [fn |-> "none"]
NoPage == [shown |-> FALSE]
NoResult == [tax |-> Zero]

-----------------------------------------------------------------------------
(* The calls *)

\* the income argument of calculate_provincial_tax
IncomeAmount == Amt(income, tenths * (Span \div 10))

\* a call repeated with the same arguments computes the same floats
Repeats(r) ==
    (/\ prev.fn = fn /\ prev.income = income /\ prev.province = province
     /\ prev.employment_type = employment_type /\ prev.pc = "returned")
    => r = prev.result

\* round() is a function of the float it is given: a later burden call whose
\* federal (provincial) lines sum to what those of the remembered call summed
\* to rounds the sum as that call did
RoundsAlike(r) ==
    (prev.fn = fn /\ prev.pc = "returned") =>
        /\ SumTaxPaid(r.federal_breakdown)
              = SumTaxPaid(prev.result.federal_breakdown)
           => r.federal_tax = prev.result.federal_tax
        /\ SumTaxPaid(r.provincial_breakdown)
              = SumTaxPaid(prev.result.provincial_breakdown)
           => r.provincial_tax = prev.result.provincial_tax

Return(r) ==
    /\ pc' = "returned"
    /\ result' = r
    /\ error' = "none"
    /\ UNCHANGED <<fn, income, tenths, province, employment_type, prev>>
    /\ UNCHANGED <<service, log, caller_brackets, page>>

Raise(e) ==
    /\ pc' = "raised"
    /\ result' = NoResult
    /\ error' = e
    /\ UNCHANGED <<fn, income, tenths, province, employment_type, prev>>
    /\ UNCHANGED <<service, log, caller_brackets, page>>

CallFederal ==
    /\ pc = "call"
    /\ fn = "calculate_federal_tax"
    /\ \E half_up \in BOOLEAN :
          \E r \in {calculate_federal_tax(income, half_up)} :
              Repeats(r) /\ Return(r)

CallProvincial ==
    /\ pc = "call"
    /\ fn = "calculate_provincial_tax"
    /\ \E half_up \in BOOLEAN :
          \E o \in {calculate_provincial_tax(IncomeAmount, province, half_up)} :
              IF o.kind = "raised" THEN Raise(o.error)
              ELSE Repeats(o.value) /\ Return(o.value)

CallBurden ==
    /\ pc = "call"
    /\ fn = "calculate_total_tax_burden"
    /\ \E half_up_f, half_up_p \in BOOLEAN :
          \E o \in {calculate_total_tax_burden(income, province,
                                                employment_type,
                                                half_up_f, half_up_p)} :
              IF o.kind = "raised" THEN Raise(o.error)
              ELSE RoundsAlike(o.value) /\ Return(o.value)

\* calculate_consumption_tax called on its own, with a whole number of dollars
\* as after_tax_income
CallConsumption ==
    /\ pc = "call"
    /\ fn = "calculate_consumption_tax"
    /\ \E o \in {calculate_consumption_tax(Dollars(income), province)} :
          IF o.kind = "raised" THEN Raise(o.error)
          ELSE Repeats(o.value) /\ Return(o.value)

\* src/utils/image_generator.py, lines 5-31: the client is built at line 7,
\* before the try of line 19; the handler of lines 29-31 prints and returns None
CallImage ==
    /\ pc = "call"
    /\ fn = "generate_tax_impact_image"
    /\ IF service = "no_credentials"
       THEN Raise("OpenAIError")
       ELSE IF service = "request_fails"
       THEN /\ pc' = "returned"
            /\ result' = None
            /\ error' = "none"
            /\ log' = Append(log, "Error generating image")
            /\ UNCHANGED <<fn, income, tenths, province, employment_type, prev,
                           service, caller_brackets, page>>
       ELSE Return(ImageUrl)

\* the caller calls the same function again, for the same table and an income
\* at least as high
NextCall ==
    /\ pc \in {"returned", "raised"}
    /\ prev = NoCall
    /\ prev' = [fn |-> fn, income |-> income, province |-> province,
                employment_type |-> employment_type, pc |-> pc,
                result |-> result, error |-> error]
    /\ \E i \in Incomes : i >= income /\ income' = i
    /\ pc' = "call"
    /\ result' = NoResult
    /\ error' = "none"
    /\ UNCHANGED <<fn, tenths, province, employment_type>>
    /\ UNCHANGED <<service, log, caller_brackets, page>>

\* the caller calls calculate_total_tax_burden again, with another choice of
\* the employment type field
NextCallEmployment ==
    /\ pc \in {"returned", "raised"}
    /\ fn = "calculate_total_tax_burden"
    /\ prev = NoCall
    /\ prev' = [fn |-> fn, income |-> income, province |-> province,
                employment_type |-> employment_type, pc |-> pc,
                result |-> result, error |-> error]
    /\ \E e \in EmploymentArgs : e # employment_type /\ employment_type' = e
    /\ pc' = "call"
    /\ result' = NoResult
    /\ error' = "none"
    /\ UNCHANGED <<fn, income, tenths, province>>
    /\ UNCHANGED <<service, log, caller_brackets, page>>

\* the arguments of the calls that share a run with other calls and callers
SharedIncomes == ExampleIncomes \cup {0, GridStep}
SharedProvinces == {"Ontario", "Alberta", "Atlantis"}

\* the caller calls calculate_total_tax_burden once more, with any arguments;
\* the first call of the run is remembered
CallAgain ==
    /\ pc \in {"returned", "raised", "mutated"}
    /\ fn = "calculate_total_tax_burden"
    /\ prev' = IF prev = NoCall
               THEN [fn |-> fn, income |-> income, province |-> province,
                     employment_type |-> employment_type, pc |-> pc,
                     result |-> result, error |-> error]
               ELSE prev
    /\ income' \in SharedIncomes
    /\ province' \in SharedProvinces
    /\ employment_type' \in EmploymentTypes
    /\ pc' = "call"
    /\ result' = NoResult
    /\ error' = "none"
    /\ UNCHANGED <<fn, tenths, service, log, caller_brackets, page>>

\* a caller alters the list it got from get_federal_tax_brackets(): it sets
\* the rate of one entry to 0 (at any time, a call in flight or not)
MutateTable ==
    /\ caller_brackets = get_federal_tax_brackets
    /\ \E k \in 1..Len(caller_brackets) :
          caller_brackets' =
              [caller_brackets EXCEPT ![k] = <<@[1], @[2], 0>>]
    /\ UNCHANGED <<fn, income, tenths, province, employment_type, pc, result,
                   error, prev, service, log, page>>

\* a caller asks the accessor for the list again
GetTable ==
    /\ caller_brackets # get_federal_tax_brackets
    /\ caller_brackets' = get_federal_tax_brackets
    /\ UNCHANGED <<fn, income, tenths, province, employment_type, pc, result,
                   error, prev, service, log, page>>

\* a caller alters the result it was returned: it empties the federal lines
MutateResult ==
    /\ pc = "returned"
    /\ fn = "calculate_total_tax_burden"
    /\ prev # NoCall
    /\ result' = [result EXCEPT !.federal_breakdown = <<>>]
    /\ pc' = "mutated"
    /\ UNCHANGED <<fn, income, tenths, province, employment_type, error, prev,
                   service, log, caller_brackets, page>>

\* src/main.py, lines 310-320: the page computes its own pay-period table from
\* the income field and the total_deductions of the result
ShowPayPeriods ==
    /\ pc = "returned"
    /\ fn = "calculate_total_tax_burden"
    /\ ~page.shown
    /\ page' = [shown |-> TRUE,
                pay_periods |->
                    local_calculate_pay_periods(income, result.total_deductions)]
    /\ UNCHANGED <<fn, income, tenths, province, employment_type, pc, result,
                   error, prev, service, log, caller_brackets>>

InitArgs ==
    \/ /\ fn = "calculate_federal_tax"
       /\ income \in Incomes
       /\ tenths = 0
       /\ province = NoArg
       /\ employment_type = NoArg
    \/ /\ fn = "calculate_provincial_tax"
       /\ income \in Incomes
       /\ tenths \in IF income = 0 THEN 0..MaxTenths ELSE {0}
       /\ province \in ProvinceArgs
       /\ employment_type = NoArg
    \/ /\ fn = "calculate_total_tax_burden"
       /\ income \in Incomes
       /\ tenths = 0
       /\ province \in ProvinceArgs
       /\ employment_type \in EmploymentArgs
    \/ /\ fn = "calculate_consumption_tax"
       /\ income \in Incomes
       /\ tenths = 0
       /\ province \in ProvinceArgs
       /\ employment_type = NoArg
    \/ /\ fn = "generate_tax_impact_image"   \* income stands for total_tax
       /\ income \in ValidIncomes
       /\ tenths = 0
       /\ province = NoArg
       /\ employment_type = NoArg

Init ==
    /\ InitArgs
    /\ pc = "call"
    /\ result = NoResult
    /\ error = "none"
    /\ prev = NoCall
    /\ service \in IF fn = "generate_tax_impact_image" THEN ImageServices
                   ELSE {NoArg}
    /\ log = <<>>
    /\ caller_brackets = get_federal_tax_brackets
    /\ page = NoPage

Next ==
    CallFederal \/ CallProvincial \/ CallBurden \/ CallConsumption \/ CallImage

Spec == Init /\ [][Next]_vars

\* two successive calls of a bracket calculator
InitPair ==
    /\ Init
    /\ fn \in {"calculate_federal_tax", "calculate_provincial_tax"}
    /\ tenths = 0

NextPair == CallFederal \/ CallProvincial \/ NextCall

SpecPair == InitPair /\ [][NextPair]_vars

\* two successive calls of calculate_total_tax_burden for the same income and
\* province, the second for another employment type
InitEmployment == Init /\ fn = "calculate_total_tax_burden"

NextEmployment == CallBurden \/ NextCallEmployment

SpecEmployment == InitEmployment /\ [][NextEmployment]_vars

\* any number of calls of calculate_total_tax_burden in one run, among callers
\* that alter the tables and results they were given
InitShared ==
    /\ Init
    /\ fn = "calculate_total_tax_burden"
    /\ income \in SharedIncomes
    /\ province \in SharedProvinces
    /\ employment_type \in EmploymentTypes

NextShared ==
    CallBurden \/ CallAgain \/ MutateTable \/ GetTable \/ MutateResult

SpecShared == InitShared /\ [][NextShared]_vars

\* a calculation started from the page: the button calls
\* calculate_total_tax_burden with the values of the three widgets (src/main.py,
\* lines 263-266) and the page shows the result
InitUi ==
    /\ Init
    /\ fn = "calculate_total_tax_burden"
    /\ income \in UiIncomes
    /\ province \in UiProvinces
    /\ employment_type \in UiEmploymentTypes

NextUi == CallBurden \/ ShowPayPeriods

SpecUi == InitUi /\ [][NextUi]_vars

-----------------------------------------------------------------------------
(* Properties *)

Done == pc # "call"
IsBurden == fn = "calculate_total_tax_burden"
IsEngine == fn \in {"calculate_federal_tax", "calculate_provincial_tax"}
ValidArgs ==
    income >= 0 /\ province \in Provinces /\ employment_type \in EmploymentTypes

ZeroQuot(x) == x.n = Zero

\* C1: for every income >= 0 (0 included), every province and every
\* employment type, calculate_total_tax_burden returns a result; at income 0
\* the federal tax, provincial tax, CPP and EI and every rate ratio are 0.
C1_ReturnsForEveryIncome ==
    (IsBurden /\ Done /\ ValidArgs) =>
        /\ pc = "returned"
        /\ income = 0 =>
              /\ result.federal_tax = Zero
              /\ result.provincial_tax = Zero
              /\ result.tax_breakdown.cpp = Zero
              /\ result.tax_breakdown.ei = Zero
              /\ ZeroQuot(result.tax_rates.total_tax_rate)
              /\ ZeroQuot(result.tax_rates.federal_rate)
              /\ ZeroQuot(result.tax_rates.provincial_rate)
              /\ ZeroQuot(result.tax_rates.cpp_ei_rate)
              /\ result.tax_rates.marginal_tax_rate = 0

\* C2, as claimed: the sum of tax_paid over the lines of the breakdown equals
\* the returned total tax exactly.
C2_SumEqualsTotal ==
    (IsEngine /\ pc = "returned") => SumTaxPaid(result.breakdown) = result.tax

HalfCent == Money(0, 50, 0)

\* C2, amended: the returned total is the sum of tax_paid over the lines
\* rounded to 2 decimal places: a whole number of cents at most half a cent
\* away from the sum.
C2_TotalIsRoundedSum ==
    (IsEngine /\ pc = "returned") =>
        LET sum == SumTaxPaid(result.breakdown)
        IN  /\ IsCents(result.tax)
            /\ MLeq(MSub(result.tax, sum), HalfCent)
            /\ MLeq(MSub(sum, result.tax), HalfCent)

\* a total of several lines that is not a whole number of cents
C2_Witness ==
    /\ IsEngine /\ pc = "returned"
    /\ Len(result.breakdown) >= 2
    /\ ~IsCents(SumTaxPaid(result.breakdown))
    /\ result.tax # SumTaxPaid(result.breakdown)

\* the figures of the docstrings
DocFederalTax == 54961
DocProvincialTax == 34781
DocCppEi == 5105
DocTotalTax == 94846
DocTotalRate == 3794

Near(v, dollars) == MLeq(Dollars(dollars - 1), v) /\ MLeq(v, Dollars(dollars + 1))

\* C3: for income 250000, Ontario, Employee the result has federal_tax about
\* 54,961, provincial_tax about 34,781, CPP+EI about 5,105, total_deductions
\* about 94,846 and total_tax_rate about 37.94 %, each within one unit of the
\* last stated digit.
C3_DocumentedScenario ==
    (/\ IsBurden /\ Done /\ income = 250000
     /\ province = "Ontario" /\ employment_type = "Employee") =>
        /\ pc = "returned"
        /\ Near(result.federal_tax, DocFederalTax)
        /\ Near(result.provincial_tax, DocProvincialTax)
        /\ Near(MAdd(result.tax_breakdown.cpp, result.tax_breakdown.ei), DocCppEi)
        /\ Near(result.total_deductions, DocTotalTax)
        /\ MLeq(Dollars(income * (DocTotalRate - 1)),
                MTimes(result.total_deductions, 100 * 100))
        /\ MLeq(MTimes(result.total_deductions, 100 * 100),
                Dollars(income * (DocTotalRate + 1)))

\* C4: in every result of calculate_total_tax_burden, total_deductions is
\* federal_tax + provincial_tax + tax_breakdown.cpp + tax_breakdown.ei, and
\* federal_tax and provincial_tax are the values of tax_breakdown.
C4_DeductionsAreTheSum ==
    (IsBurden /\ pc = "returned") =>
        /\ result.total_deductions =
              MAdd(MAdd(MAdd(result.federal_tax, result.provincial_tax),
                        result.tax_breakdown.cpp),
                   result.tax_breakdown.ei)
        /\ result.federal_tax = result.tax_breakdown.federal
        /\ result.provincial_tax = result.tax_breakdown.provincial

\* all four components are present
C4_Witness ==
    /\ IsBurden /\ pc = "returned" /\ ValidArgs
    /\ MLess(Zero, result.federal_tax)
    /\ MLess(Zero, result.provincial_tax)
    /\ MLess(Zero, result.tax_breakdown.cpp)
    /\ MLess(Zero, result.tax_breakdown.ei)
    /\ ~IsCents(result.total_deductions)

\* C5: in every result of calculate_total_tax_burden, after_tax_income +
\* total_deductions is the input income, and pay_periods.yearly.net is
\* after_tax_income.
C5_AfterTaxPlusDeductions ==
    (IsBurden /\ pc = "returned") =>
        /\ MAdd(result.after_tax_income, result.total_deductions) = Dollars(income)
        /\ result.pay_periods[1].period = "yearly"
        /\ result.pay_periods[1].net = Quot(result.after_tax_income, 1)

C5_Witness ==
    /\ IsBurden /\ pc = "returned" /\ ValidArgs
    /\ MLess(Zero, result.total_deductions)
    /\ MLess(Zero, result.after_tax_income)
    /\ ~IsCents(result.after_tax_income)

\* C6: a province that is not a key of the provincial bracket table makes
\* calculate_provincial_tax and calculate_total_tax_burden raise ValueError
\* and return nothing, although the GST/HST lookup of the same string would
\* fall back to its default rate.
C6_UnknownProvinceRaises ==
    (fn \in {"calculate_provincial_tax", "calculate_total_tax_burden"}
     /\ Done /\ province \notin Provinces) =>
        /\ pc = "raised"
        /\ error = "ValueError"
        /\ result = NoResult
        /\ gst_rate(province) = 5

C6_Witness ==
    /\ IsBurden /\ pc = "raised" /\ error = "ValueError"
    /\ province = "Atlantis" /\ income > 0 /\ employment_type \in EmploymentTypes

\* C7: a call of calculate_federal_tax, calculate_provincial_tax or
\* calculate_total_tax_burden with income < 0 fails with InvalidInput and
\* produces no result.
C7_NegativeIncomeRejected ==
    (/\ Done /\ income < 0
     /\ province \in Provinces \cup {NoArg}
     /\ employment_type \in EmploymentTypes \cup {NoArg}) =>
        (pc = "raised" /\ error = "InvalidInput")

\* C8: calculate_total_tax_burden called with an employment type outside
\* {Employee, Self-Employed, Contractor} fails with InvalidInput and returns
\* no result.
C8_UnknownEmploymentRejected ==
    (/\ IsBurden /\ Done /\ income > 0 /\ province \in Provinces
     /\ employment_type \notin EmploymentTypes) =>
        (pc = "raised" /\ error = "InvalidInput")

\* the earlier call of the run returned too, for an income >= 0
TwoCalls ==
    /\ prev # NoCall /\ prev.pc = "returned" /\ pc = "returned"
    /\ IsEngine /\ prev.income >= 0

\* C9: for the federal table (with its phase-out) and each provincial table,
\* and all incomes 0 <= i1 <= i2, the tax returned for i1 is at most the tax
\* returned for i2.
C9_TaxIsMonotone ==
    (TwoCalls /\ prev.income <= income) => MLeq(prev.result.tax, result.tax)

\* two incomes inside the phase-out of the basic personal amount
C9_Witness ==
    /\ TwoCalls /\ fn = "calculate_federal_tax"
    /\ 173205 < prev.income /\ prev.income < income /\ income <= 235675
    /\ MLess(prev.result.tax, result.tax)

\* the taxable_amount values of a breakdown, added up
RECURSIVE SumTaxable(_)
SumTaxable(lines) ==
    IF lines = <<>> THEN AmtInt(0)
    ELSE LET rest == SumTaxable(SubSeq(lines, 1, Len(lines) - 1))
             a == lines[Len(lines)].taxable_amount
         IN  Amt(rest.i + a.i, rest.x + a.x)

\* the basic personal amount as the claim states it, in 62470ths of a dollar
ClaimedBpa62470(inc) ==
    IF inc <= 173205 THEN 15000 * 62470
    ELSE IF inc < 235675 THEN 15000 * 62470 - 1479 * (inc - 173205)
    ELSE 13521 * 62470

\* C10: the basic personal amount calculate_federal_tax uses is 15000 for
\* income <= 173205, 15000 - 1479 * (income - 173205) / 62470 for
\* 173205 < income < 235675, and 13521 from 235675 on; it is never below
\* 13521 or above 15000.  (Whenever income exceeds the amount, the amount is
\* the income less the taxable amounts of the breakdown.)
C10_BasicPersonalAmount ==
    (fn = "calculate_federal_tax" /\ pc = "returned") =>
        LET bpa == basic_personal_amount(income)
            claimed == Amt(0, ClaimedBpa62470(income))
        IN  /\ bpa = claimed
            /\ AmtLeq(AmtInt(13521), bpa) /\ AmtLeq(bpa, AmtInt(15000))
            /\ SumTaxable(result.breakdown) =
                  AmtMax(AmtInt(0), AmtSub(AmtInt(income), claimed))

\* an income inside the phase-out whose amount is not a whole dollar
C10_Witness ==
    /\ fn = "calculate_federal_tax" /\ pc = "returned"
    /\ 173205 < income /\ income < 235675
    /\ basic_personal_amount(income).x # 0
    /\ result.breakdown # <<>>

-----------------------------------------------------------------------------
(* Payroll contributions (C11, C12) *)

CppMax == Cents(cpp_max_cents)
EiMax == Cents(ei_max_cents)

\* both calls of a pair have returned, the first for employment type a and the
\* second for employment type b
BurdenPair(a, b) ==
    /\ IsBurden /\ pc = "returned"
    /\ prev # NoCall /\ prev.pc = "returned"
    /\ prev.employment_type = a /\ employment_type = b

\* C11: for every income >= 0 the CPP contribution computed for Self-Employed
\* is exactly twice the one computed for Employee at the same income (also
\* above the contribution ceiling, by the doubled cap), and the EI premium for
\* Self-Employed is 0.
C11_SelfEmployedPaysTwice ==
    /\ (BurdenPair("Employee", "Self-Employed") /\ income >= 0) =>
          result.tax_breakdown.cpp = MTimes(prev.result.tax_breakdown.cpp, 2)
    /\ (BurdenPair("Self-Employed", "Employee") /\ income >= 0) =>
          prev.result.tax_breakdown.cpp = MTimes(result.tax_breakdown.cpp, 2)
    /\ (IsBurden /\ pc = "returned" /\ employment_type = "Self-Employed") =>
          result.tax_breakdown.ei = Zero
    /\ (IsBurden /\ income >= 0) =>
          cpp_contribution(income, "Self-Employed")
             = MTimes(cpp_contribution(income, "Employee"), 2)

\* an income above the ceiling: the employee pays the maximum and the
\* self-employed twice the maximum
C11_Witness ==
    /\ BurdenPair("Employee", "Self-Employed")
    /\ prev.result.tax_breakdown.cpp = CppMax
    /\ result.tax_breakdown.cpp = MTimes(CppMax, 2)
    /\ result.tax_breakdown.ei = Zero
    /\ prev.result.tax_breakdown.ei = EiMax

\* C12: for every employment type other than Self-Employed,
\* cpp = min(income * 0.0595, 3754.45) and ei = min(income * 0.0163, 1002.45);
\* CPP never exceeds the maximum (twice the maximum for Self-Employed) and EI
\* never exceeds its maximum; the result for Contractor is identical to the
\* result for Employee at the same income and province.
C12_ContributionsAndCaps ==
    /\ (IsBurden /\ pc = "returned" /\ employment_type # "Self-Employed") =>
          /\ result.tax_breakdown.cpp
                = MMin(MulRate(AmtInt(income), 595), Money(3754, 4500, 0))
          /\ result.tax_breakdown.ei
                = MMin(MulRate(AmtInt(income), 163), Money(1002, 4500, 0))
          /\ MLeq(result.tax_breakdown.cpp, Money(3754, 4500, 0))
    /\ (IsBurden /\ pc = "returned") =>
          /\ MLeq(result.tax_breakdown.cpp, Money(2 * 3754, 9000, 0))
          /\ MLeq(result.tax_breakdown.ei, Money(1002, 4500, 0))
    /\ (BurdenPair("Employee", "Contractor")
            \/ BurdenPair("Contractor", "Employee")) =>
          result = prev.result
    /\ (IsBurden /\ Done /\ prev # NoCall
            /\ {prev.employment_type, employment_type}
                  = {"Employee", "Contractor"}) =>
          pc = prev.pc /\ error = prev.error

\* a contractor above both ceilings, after the employee of the same income and
\* province, with the same result
C12_Witness ==
    /\ BurdenPair("Employee", "Contractor")
    /\ result = prev.result
    /\ result.tax_breakdown.cpp = CppMax
    /\ result.tax_breakdown.ei = EiMax
    /\ MLess(result.tax_breakdown.cpp, MulRate(AmtInt(income), cpp_rate))

-----------------------------------------------------------------------------
(* Consumption tax (C13, C14) *)

IsConsumption == fn = "calculate_consumption_tax"

\* the after-tax income a returned consumption estimate was computed from, and
\* the estimate
ConsumptionAfterTax ==
    IF IsConsumption THEN Dollars(income) ELSE result.after_tax_income
ConsumptionResult ==
    IF IsConsumption THEN result ELSE result.consumption_tax_breakdown

RECURSIVE SumPercentages(_)
SumPercentages(k) ==
    IF k = 0 THEN 0 ELSE SumPercentages(k - 1) + spending_categories[k].percentage

\* C13: the percentages of the spending categories sum to 1.0; for every
\* after-tax income the returned taxable_spending and non_taxable_spending add
\* up to after_tax_income, and taxable_spending is the 40% share
\* (0.12 + 0.10 + 0.18) of it.  (An amount is kept as hundredths over 100.)
C13_SpendingShares ==
    /\ SumPercentages(Len(spending_categories)) = 100
    /\ ((IsBurden \/ IsConsumption) /\ pc = "returned") =>
          LET c == ConsumptionResult
              after == ConsumptionAfterTax
          IN  /\ c.taxable_spending.q = 100
              /\ c.non_taxable_spending.q = 100
              /\ MAdd(c.taxable_spending.n, c.non_taxable_spending.n)
                    = MTimes(after, 100)
              /\ c.taxable_spending.n = MTimes(after, 12 + 10 + 18)

\* a burden result whose after-tax income is not a whole number of cents
C13_Witness ==
    /\ IsBurden /\ pc = "returned" /\ income > 0
    /\ ~IsCents(result.after_tax_income)
    /\ MLess(Zero, result.consumption_tax_breakdown.taxable_spending.n)
    /\ result.consumption_tax_breakdown.taxable_spending
          = Quot(MTimes(result.after_tax_income, 40), 100)

\* C14: calculate_consumption_tax called with a jurisdiction that is not a key
\* of the GST/HST rate map does not fail: it uses the rate 0.05 and returns a
\* result whose tax is taxable_spending * 0.05; a jurisdiction that is a key
\* uses its mapped rate.
C14_UnknownJurisdictionDefaults ==
    (IsConsumption /\ Done) =>
        /\ province \notin DOMAIN get_gst_hst_rates =>
              /\ pc = "returned"
              /\ result.rate = 5
              /\ result.tax = Quot(MTimes(result.taxable_spending.n, 5),
                                   result.taxable_spending.q * 100)
        /\ (province \in DOMAIN get_gst_hst_rates /\ pc = "returned") =>
              result.rate = get_gst_hst_rates[province]

\* C14 for an after_tax_income other than 0, where line 269 does not raise
C14_DefaultsAwayFromZero ==
    income # 0 => C14_UnknownJurisdictionDefaults

-----------------------------------------------------------------------------
(* The bracket calculators (C15, C16, C19, C20) *)

IsFederal == fn = "calculate_federal_tax"
IsProvincial == fn = "calculate_provincial_tax"

\* C15: for income 0 calculate_federal_tax and calculate_provincial_tax both
\* return tax 0, and for every income from 0 to the basic personal amount of
\* 15000 calculate_federal_tax returns tax 0 and a breakdown without any line
\* of non-zero contribution.
C15_NoTaxUpToExemption ==
    /\ (IsFederal /\ Done /\ income >= 0 /\ income <= 15000) =>
          /\ pc = "returned"
          /\ result.tax = Zero
          /\ \A k \in DOMAIN result.breakdown :
                result.breakdown[k].tax_paid = Zero
    /\ (IsProvincial /\ Done /\ income = 0 /\ tenths = 0
            /\ province \in Provinces) =>
          /\ pc = "returned"
          /\ result.tax = Zero
          /\ \A k \in DOMAIN result.breakdown :
                result.breakdown[k].tax_paid = Zero
    /\ (IsBurden /\ pc = "returned" /\ income >= 0 /\ income <= 15000) =>
          result.federal_tax = Zero

\* the federal tax of an income of exactly the basic personal amount
C15_Witness ==
    /\ IsFederal /\ pc = "returned"
    /\ income = 15000
    /\ result.tax = Zero
    /\ result.breakdown = <<>>

\* the brackets [lower, upper) of a table that hold the amount
BracketsHolding(brackets, amount) ==
    {k \in 1..Len(brackets) :
        brackets[k][1] <= amount /\ amount < brackets[k][2]}

ClaimedTaxableIncome(inc) ==
    AmtMax(AmtInt(0), AmtSub(AmtInt(inc), Amt(0, ClaimedBpa62470(inc))))

AmtLess(a, b) == ~AmtLeq(b, a)

\* the lines are the walk of the table over the amount T: one line for each
\* bracket that begins below T, in ascending order, taxing the part of T
\* between the bounds of the bracket at the unrounded rate, and no other line
IsWalkOf(lines, brackets, T) ==
    /\ Len(lines) <= Len(brackets)
    /\ \A k \in 1..Len(brackets) :
          IF AmtLess(AmtInt(brackets[k][1]), T)
          THEN /\ k <= Len(lines)
               /\ lines[k].lower = brackets[k][1]
               /\ lines[k].upper = brackets[k][2]
               /\ lines[k].rate = brackets[k][3]
               /\ lines[k].taxable_amount
                     = AmtSub(AmtMin(T, AmtInt(brackets[k][2])),
                              AmtInt(brackets[k][1]))
               /\ lines[k].taxable_amount
                     = AmtMin(AmtSub(T, SumTaxable(SubSeq(lines, 1, k - 1))),
                              AmtInt(brackets[k][2] - brackets[k][1]))
               /\ lines[k].tax_paid
                     = MulRate(lines[k].taxable_amount, brackets[k][3])
          ELSE k > Len(lines)
    /\ SumTaxable(lines) = T

\* the total is the sum of the lines rounded to 2 decimal places
IsRounded(total, sum) ==
    /\ IsCents(total)
    /\ MLeq(MSub(total, sum), HalfCent)
    /\ MLeq(MSub(sum, total), HalfCent)

\* C19: for every income >= 0 calculate_federal_tax returns the sum over the
\* federal brackets, in ascending order, of rate * amount rounded to 2
\* decimals, for the taxable income max(0, income - basicPersonalAmount(income)):
\* a bounded bracket takes min(remaining, upper - lower), the top bracket all
\* that remains, a taxable income equal to a cumulative bracket bound gets no
\* line for the next bracket, and only the final total is rounded.
C19_FederalTaxIsTheWalk ==
    (IsFederal /\ Done /\ income >= 0) =>
        /\ pc = "returned"
        /\ IsWalkOf(result.breakdown, get_federal_tax_brackets,
                    ClaimedTaxableIncome(income))
        /\ IsRounded(result.tax, SumTaxPaid(result.breakdown))
        /\ \A k \in 1..Len(get_federal_tax_brackets) :
              ClaimedTaxableIncome(income) = AmtInt(get_federal_tax_brackets[k][2])
                  => Len(result.breakdown) = k

\* a taxable income of exactly the upper bound of the second bracket: two lines
C19_Witness ==
    /\ IsFederal /\ pc = "returned"
    /\ ClaimedTaxableIncome(income) = AmtInt(get_federal_tax_brackets[2][2])
    /\ Len(result.breakdown) = 2
    /\ result.breakdown[2].taxable_amount
          = AmtInt(get_federal_tax_brackets[2][2] - get_federal_tax_brackets[2][1])

\* C20, as claimed: calculate_provincial_tax applies no basic personal amount:
\* for every province and income >= 0 it is the rounded bracket walk over the
\* full gross income, so every positive income gives a strictly positive
\* provincial tax, also where the federal tax of the same income is 0
\* (income <= 15000), and the result does not depend on the federal phase-out.
C20_EveryPositiveIncomeTaxed ==
    /\ (IsProvincial /\ Done /\ income >= 0 /\ province \in Provinces) =>
          /\ pc = "returned"
          /\ IsWalkOf(result.breakdown, get_province_tax_rates[province],
                      IncomeAmount)
          /\ IsRounded(result.tax, SumTaxPaid(result.breakdown))
          /\ AmtLess(AmtInt(0), IncomeAmount) => MLess(Zero, result.tax)
    /\ (IsBurden /\ pc = "returned" /\ income > 0) =>
          /\ MLess(Zero, result.provincial_tax)
          /\ SumTaxable(result.provincial_breakdown) = AmtInt(income)
          /\ income <= 15000 => result.federal_tax = Zero

\* C20, amended: the same, the provincial tax being strictly positive for
\* every income of at least one dollar; the tax of a smaller positive income is
\* positive or rounds to 0.00.
C20_ProvincialTaxOnGrossIncome ==
    /\ (IsProvincial /\ Done /\ income >= 0 /\ province \in Provinces) =>
          /\ pc = "returned"
          /\ IsWalkOf(result.breakdown, get_province_tax_rates[province],
                      IncomeAmount)
          /\ IsRounded(result.tax, SumTaxPaid(result.breakdown))
          /\ income >= 1 => MLess(Zero, result.tax)
          /\ MLeq(Zero, result.tax)
    /\ (IsBurden /\ pc = "returned" /\ income > 0) =>
          /\ MLess(Zero, result.provincial_tax)
          /\ SumTaxable(result.provincial_breakdown) = AmtInt(income)
          /\ income <= 15000 => result.federal_tax = Zero

\* ten cents of income in Nunavut: one line of 0.004, a tax of 0.00
C20_RoundsToZero ==
    /\ IsProvincial /\ pc = "returned"
    /\ income = 0 /\ tenths = 1
    /\ Len(result.breakdown) = 1
    /\ MLess(Zero, result.breakdown[1].tax_paid)
    /\ result.tax = Zero

\* an income below the basic personal amount: no federal tax, provincial tax
\* on all of it
C20_Witness ==
    /\ IsBurden /\ pc = "returned"
    /\ income > 0 /\ income <= 15000
    /\ result.federal_tax = Zero
    /\ MLess(Zero, result.provincial_tax)
    /\ SumTaxable(result.provincial_breakdown) = AmtInt(income)

-----------------------------------------------------------------------------
(* The image generator (C18) *)

IsImage == fn = "generate_tax_impact_image"

\* C18: generate_tax_impact_image never raises: on any failure of the image
\* service or of its client, the failure to build the client for want of
\* credentials included, it logs the failure and returns None; and
\* calculate_total_tax_burden, which never calls it nor reads the state of the
\* service, completes alike whatever that state is.
C18_ImageNeverRaises ==
    /\ (IsImage /\ Done) =>
          /\ pc = "returned"
          /\ service # "ok" => (result = None /\ log # <<>>)
    /\ (IsBurden /\ Done) => log = <<>>

\* C18 for a client that can be built: a failing request is caught, printed
\* and answered with None
C18_RequestFailureIsCaught ==
    (IsImage /\ Done /\ service # "no_credentials") =>
        /\ pc = "returned"
        /\ service = "request_fails" => (result = None /\ log # <<>>)
        /\ service = "ok" => (result = ImageUrl /\ log = <<>>)

-----------------------------------------------------------------------------
(* Calls that share a run (C17) *)

SameArgsAsFirst ==
    /\ prev # NoCall
    /\ prev.fn = fn /\ prev.income = income /\ prev.province = province
    /\ prev.employment_type = employment_type

-----------------------------------------------------------------------------
(* The rate data (C21) *)

\* a table begins at 0, each bracket begins where the one before ends and is
\* not empty, the last bracket alone has no upper bound, and no rate is lower
\* than the rate before it
WellFormed(table) ==
    /\ Len(table) >= 1
    /\ table[1][1] = 0
    /\ \A k \in 1..Len(table) :
          /\ table[k][1] < table[k][2]
          /\ (table[k][2] = Inf) <=> (k = Len(table))
          /\ k > 1 => /\ table[k][1] = table[k - 1][2]
                      /\ table[k][3] >= table[k - 1][3]

\* C21: every bracket table of the rate data, the federal table and each of
\* the 13 provincial and territorial tables, is well formed: the first lower
\* bound is 0, each lower bound equals the upper bound before it with
\* lower < upper, only the last bracket has an infinite upper bound, and the
\* rates do not decrease from one bracket to the next.
C21_TablesWellFormed ==
    /\ WellFormed(get_federal_tax_brackets)
    /\ Cardinality(DOMAIN get_province_tax_rates) = 13
    /\ \A p \in DOMAIN get_province_tax_rates :
          WellFormed(get_province_tax_rates[p])
    /\ ((IsFederal \/ IsProvincial) /\ pc = "returned") =>
          \A k \in DOMAIN result.breakdown :
              /\ result.breakdown[k].lower < result.breakdown[k].upper
              /\ k > 1 =>
                    /\ result.breakdown[k].lower = result.breakdown[k - 1].upper
                    /\ result.breakdown[k].rate >= result.breakdown[k - 1].rate

\* a call that has walked a whole table, up to its unbounded last bracket
C21_Witness ==
    /\ IsProvincial /\ pc = "returned"
    /\ province = "British Columbia"
    /\ Len(result.breakdown) = Len(get_province_tax_rates[province])
    /\ result.breakdown[Len(result.breakdown)].upper = Inf
    /\ WellFormed(get_province_tax_rates[province])

-----------------------------------------------------------------------------
(* Pay periods (C22) *)

\* C22: pay_periods in the result holds exactly the periods yearly, monthly,
\* biweekly and weekly, whose gross, deductions and net are income,
\* total_deductions and after_tax_income divided by 1, 12, 26 and 52, with
\* net = gross - deductions in every period; and the table the page computes
\* for itself from income and total_deductions has the same values.
C22_PayPeriods ==
    (IsBurden /\ pc = "returned") =>
        LET pp == result.pay_periods
            DivisorOf == "yearly" :> 1 @@ "monthly" :> 12
                         @@ "biweekly" :> 26 @@ "weekly" :> 52
        IN  /\ Len(pp) = 4
            /\ {pp[k].period : k \in 1..Len(pp)} = DOMAIN DivisorOf
            /\ \A k \in 1..Len(pp) :
                  LET q == DivisorOf[pp[k].period]
                  IN  /\ QEq(pp[k].gross, Quot(Dollars(income), q))
                      /\ QEq(pp[k].deductions, Quot(result.total_deductions, q))
                      /\ QEq(pp[k].net, Quot(result.after_tax_income, q))
                      /\ pp[k].gross.q = pp[k].deductions.q
                      /\ QEq(pp[k].net,
                             Quot(MSub(pp[k].gross.n, pp[k].deductions.n),
                                  pp[k].gross.q))
                      /\ page.shown =>
                            /\ DOMAIN page.pay_periods = DOMAIN DivisorOf
                            /\ QEq(page.pay_periods[pp[k].period].gross,
                                   pp[k].gross)
                            /\ QEq(page.pay_periods[pp[k].period].deductions,
                                   pp[k].deductions)
                            /\ QEq(page.pay_periods[pp[k].period].net,
                                   pp[k].net)

\* the page has computed its table for a result whose biweekly net pay is the
\* 26th part of an after-tax income that is not a whole number of cents
C22_Witness ==
    /\ IsBurden /\ pc = "returned" /\ page.shown
    /\ ~IsCents(result.after_tax_income)
    /\ result.pay_periods[3].period = "biweekly"
    /\ result.pay_periods[3].net = Quot(result.after_tax_income, 26)
    /\ page.pay_periods["biweekly"].net = result.pay_periods[3].net

-----------------------------------------------------------------------------
(* The marginal rate and the breakdowns (C23) *)

LastRate(lines) == lines[Len(lines)].rate

\* the amount is a bound of a bracket of the table
OnBound(table, amount) ==
    \E k \in 1..Len(table) :
        amount = AmtInt(table[k][1]) \/ amount = AmtInt(table[k][2])

\* the brackets [lower, upper) of a table that hold an amount of dollars and
\* fractions
BracketsHoldingAmount(table, amount) ==
    {k \in 1..Len(table) :
        AmtLeq(AmtInt(table[k][1]), amount) /\ AmtLess(amount, AmtInt(table[k][2]))}

\* C23, as claimed: whenever the federal breakdown is not empty and the
\* taxable income is not a bracket bound, the federal rate that enters
\* marginal_tax_rate is the rate of the last line of federal_breakdown, the
\* rate at which calculate_federal_tax taxes the next dollar; likewise the
\* provincial rate is the rate of the last line of provincial_breakdown.
C23_MarginalIsLastLineRate ==
    (/\ IsBurden /\ pc = "returned"
     /\ result.federal_breakdown # <<>>
     /\ result.provincial_breakdown # <<>>
     /\ ~OnBound(get_federal_tax_brackets, ClaimedTaxableIncome(income))
     /\ ~OnBound(get_province_tax_rates[province], AmtInt(income)))
    => result.tax_rates.marginal_tax_rate
          = LastRate(result.federal_breakdown)
            + LastRate(result.provincial_breakdown)

\* C23, amended: whenever the provincial breakdown is not empty and the income
\* is not a bracket bound, the provincial rate that enters marginal_tax_rate
\* is the rate of the last line of provincial_breakdown.  The federal rate
\* that enters it is the rate of the federal bracket holding the gross income:
\* it is never below the rate of the last line of federal_breakdown, and equal
\* to it when the taxable income is not a bracket bound and lies in the same
\* federal bracket as the gross income.
C23_MarginalRateAndLastLines ==
    (/\ IsBurden /\ pc = "returned"
     /\ result.provincial_breakdown # <<>>
     /\ ~OnBound(get_province_tax_rates[province], AmtInt(income)))
    => LET federal_marginal ==
               result.tax_rates.marginal_tax_rate
               - LastRate(result.provincial_breakdown)
           T == ClaimedTaxableIncome(income)
       IN  /\ \E kf \in BracketsHolding(get_federal_tax_brackets, income) :
                 federal_marginal = get_federal_tax_brackets[kf][3]
           /\ result.federal_breakdown # <<>> =>
                 /\ federal_marginal >= LastRate(result.federal_breakdown)
                 /\ (/\ ~OnBound(get_federal_tax_brackets, T)
                      /\ BracketsHoldingAmount(get_federal_tax_brackets, T)
                           = BracketsHolding(get_federal_tax_brackets, income))
                     => federal_marginal = LastRate(result.federal_breakdown)

\* the default income of the page: taxed at 15% to its last federal dollar,
\* reported with the 20.5% of the bracket its gross amount lies in
C23_Witness ==
    /\ IsBurden /\ pc = "returned"
    /\ income = 60000 /\ province = "Ontario"
    /\ Len(result.federal_breakdown) = 1
    /\ LastRate(result.federal_breakdown) = get_federal_tax_brackets[1][3]
    /\ result.tax_rates.marginal_tax_rate
          = get_federal_tax_brackets[2][3]
            + LastRate(result.provincial_breakdown)

-----------------------------------------------------------------------------
(* The shape of a breakdown (C24) *)

\* the lines are the first brackets of the table, in order and none skipped,
\* each taxed on a positive amount within its width, all but the last on
\* their full width, the amounts summing to T
IsPrefixOf(lines, table, T) ==
    /\ Len(lines) <= Len(table)
    /\ \A k \in 1..Len(lines) :
          /\ <<lines[k].lower, lines[k].upper, lines[k].rate>> = table[k]
          /\ AmtLess(AmtInt(0), lines[k].taxable_amount)
          /\ table[k][2] # Inf =>
                AmtLeq(lines[k].taxable_amount, AmtInt(table[k][2] - table[k][1]))
          /\ k < Len(lines) =>
                lines[k].taxable_amount = AmtInt(table[k][2] - table[k][1])
    /\ SumTaxable(lines) = T

\* C24: for both bracket calculators and every income, the breakdown lines
\* are a prefix of the bracket table in ascending order with no bracket
\* skipped; every line has taxable_amount > 0 and, in a bounded bracket,
\* taxable_amount <= upper - lower; every line but the last is filled to its
\* full width; and the taxable amounts sum to the taxable income,
\* max(0, income - basic personal amount) for federal and income for
\* provincial.  An income of 60000 uses at most the first two federal brackets.
C24_BreakdownIsPrefix ==
    /\ (IsFederal /\ pc = "returned") =>
          /\ IsPrefixOf(result.breakdown, get_federal_tax_brackets,
                        ClaimedTaxableIncome(income))
          /\ income = 60000 => Len(result.breakdown) <= 2
    /\ (IsProvincial /\ pc = "returned") =>
          IsPrefixOf(result.breakdown, get_province_tax_rates[province],
                     IncomeAmount)
    /\ (IsBurden /\ pc = "returned" /\ income = 60000) =>
          Len(result.federal_breakdown) <= 2

\* C24 for the incomes the engine is meant for, those that are not negative
C24_PrefixFromZeroOn ==
    income >= 0 => C24_BreakdownIsPrefix
-----------------------------------------------------------------------------
(* Deductions stay inside the income (C25) *)

\* C25: for every income in 1..1,000,000 (the range the page accepts above
\* zero), every province and every employment type, 0 < total_deductions <
\* income: after_tax_income is strictly positive and total_tax_rate lies
\* strictly between 0 and 100, so the consumption-tax step is never given a
\* zero or negative after-tax income (and the calculation returns).
C25_DeductionsInsideIncome ==
    (IsBurden /\ Done /\ income >= 1 /\ income <= UiMaxIncome
        /\ province \in Provinces /\ employment_type \in EmploymentTypes) =>
        /\ pc = "returned"
        /\ MLess(Zero, result.total_deductions)
        /\ MLess(result.total_deductions, Dollars(income))
        /\ MLess(Zero, result.after_tax_income)
        /\ result.after_tax_income
              = MSub(Dollars(income), result.total_deductions)
        /\ result.tax_rates.total_tax_rate.q = income
        /\ MLess(Zero, result.tax_rates.total_tax_rate.n)
        /\ MLess(result.tax_rates.total_tax_rate.n,
                 MTimes(Dollars(income), 100))
        /\ result.consumption_tax_breakdown.taxable_ratio.den
              = result.after_tax_income

\* both ends of the range have been calculated: one dollar, where only the
\* contributions are left to pay, and the largest income of the page
C25_Witness ==
    /\ IsBurden /\ pc = "returned"
    /\ income \in {1, UiMaxIncome}
    /\ province = "Quebec" /\ employment_type = "Self-Employed"
    /\ MLess(Zero, result.total_deductions)
    /\ MLess(result.total_deductions, Dollars(income))
-----------------------------------------------------------------------------
(* The options of the page and the keys of the tables (C26) *)

\* C26: the provinces offered by the page, the keys of the provincial bracket
\* table and the keys of the GST/HST rate map are the same 13 names, and the
\* employment types offered by the page are exactly Employee, Self-Employed
\* and Contractor; hence a calculation started from the page never fails on
\* an unknown jurisdiction and never uses the 5% GST fallback.
C26_PageOptionsAreTableKeys ==
    /\ UiProvinces = DOMAIN get_province_tax_rates
    /\ UiProvinces = DOMAIN get_gst_hst_rates
    /\ Cardinality(UiProvinces) = 13
    /\ UiEmploymentTypes = {"Employee", "Self-Employed", "Contractor"}
    /\ province \in UiProvinces /\ employment_type \in UiEmploymentTypes
    /\ Done => error # "ValueError"
    /\ pc = "returned" =>
          /\ province \in DOMAIN get_gst_hst_rates
          /\ result.consumption_tax_breakdown.rate = get_gst_hst_rates[province]

\* a calculation for the last province of the list has returned, with the 5%
\* of the map's own entry
C26_Witness ==
    /\ IsBurden /\ pc = "returned" /\ province = "Nunavut"
    /\ "Nunavut" \in DOMAIN get_gst_hst_rates
    /\ result.consumption_tax_breakdown.rate = get_gst_hst_rates["Nunavut"]
    /\ result.provincial_breakdown # <<>>

====
